---- MODULE Spec2Model ----
(***************************************************************************)
(* Model of the AG-UI streaming endpoint of server/server.py: the          *)
(* event_generator coroutine that turns an upstream chunk stream into     *)
(* protocol events, executes tool calls (server/tools.py) and issues the   *)
(* continuation model call.                                                *)
(*                                                                         *)
(* Text that the code scans (delta.content, content_buffer) is a sequence  *)
(* of one-character strings; text that the code only concatenates and      *)
(* compares (tool arguments, results, error messages) is a TLA+ string.    *)
(* Python's None is the value None below; no input string equals it.       *)
(*                                                                         *)
(* Spec is one run of event_generator. SpecSplit feeds one text to the     *)
(* delimiter scan whole and in two fragments. SpecPair interleaves the     *)
(* steps of two runs that share the process's random generator.            *)
(***************************************************************************)
EXTENDS Integers, Sequences, FiniteSets, TLC

\* ------------------------------------------------------------------------
\* Bounds of the model
\* ------------------------------------------------------------------------
\* chunks delivered by the upstream in one run, over all its streams
MaxChunks == 3

\* chunks delivered to two concurrent runs together
MaxPairChunks == 4

None == "None"

\* Python truthiness of an Optional[str]
Truthy(s) == s # None /\ s # ""

\* ------------------------------------------------------------------------
\* String scanning helpers (str.__contains__, str.split(sep, 1), str.strip,
\* str.endswith) on sequences of characters
\* ------------------------------------------------------------------------
OpenTag == <<"<", "t", "h", "i", "n", "k", "i", "n", "g", ">">>
CloseTag == <<"<", "/", "t", "h", "i", "n", "k", "i", "n", "g", ">">>

Whitespace == {" ", "\t", "\n", "\r", "\f"}

\* positions at which t occurs in s
Occurrences(s, t) ==
  {i \in 1..(Len(s) - Len(t) + 1) : SubSeq(s, i, i + Len(t) - 1) = t}

\* t in s
Contains(s, t) == Occurrences(s, t) # {}

\* first occurrence of t in s (s contains t)
Find(s, t) == CHOOSE i \in Occurrences(s, t) : \A j \in Occurrences(s, t) : i <= j

\* s.split(t, 1)[0] and s.split(t, 1)[1]
SplitBefore(s, t) == SubSeq(s, 1, Find(s, t) - 1)
SplitAfter(s, t) == SubSeq(s, Find(s, t) + Len(t), Len(s))

\* not s.strip()
IsBlank(s) == \A i \in 1..Len(s) : s[i] \in Whitespace

\* PartialTagWait that waits only for a buffer that ends with "<"
PartialTagWaitAtEnd(s) == Len(s) > 0 /\ s[Len(s)] = "<"

\* "<" in s and not s.endswith(">")
PartialTagWait(s) ==
  /\ \E i \in 1..Len(s) : s[i] = "<"
  /\ ~(Len(s) > 0 /\ s[Len(s)] = ">")

\* ------------------------------------------------------------------------
\* Protocol events (the typed events handed to encoder.encode)
\* ------------------------------------------------------------------------
RunStartedEvent == [type |-> "RUN_STARTED"]
RunFinishedEvent == [type |-> "RUN_FINISHED"]
RunErrorEvent(msg) == [type |-> "RUN_ERROR", message |-> msg]
TextMessageStartEvent(m) ==
  [type |-> "TEXT_MESSAGE_START", message_id |-> m, role |-> "assistant"]
TextMessageContentEvent(m, d) ==
  [type |-> "TEXT_MESSAGE_CONTENT", message_id |-> m, delta |-> d]
TextMessageEndEvent(m) == [type |-> "TEXT_MESSAGE_END", message_id |-> m]
ThinkingStartEvent == [type |-> "THINKING_START"]
ThinkingEndEvent == [type |-> "THINKING_END"]
ThinkingTextMessageStartEvent == [type |-> "THINKING_TEXT_MESSAGE_START"]
ThinkingTextMessageContentEvent(d) ==
  [type |-> "THINKING_TEXT_MESSAGE_CONTENT", delta |-> d]
ThinkingTextMessageEndEvent == [type |-> "THINKING_TEXT_MESSAGE_END"]
ToolCallStartEvent(c, n, m) ==
  [type |-> "TOOL_CALL_START", tool_call_id |-> c, tool_call_name |-> n,
   parent_message_id |-> m]
ToolCallArgsEvent(c, d) ==
  [type |-> "TOOL_CALL_ARGS", tool_call_id |-> c, delta |-> d]
ToolCallEndEvent(c, r) ==
  [type |-> "TOOL_CALL_END", tool_call_id |-> c, result |-> r]

\* ------------------------------------------------------------------------
\* server/tools.py
\* ------------------------------------------------------------------------
\* Outcome of a call: a returned string or a raised exception with str(e)
Returned(v) == [raised |-> FALSE, value |-> v]
Raised(msg) == [raised |-> TRUE, value |-> msg]

\* The generator of the random module, shared by the whole process: the
\* seed it was last seeded with and the number of values drawn since.
\* Importing the module seeds it from the operating system; -1 stands for
\* that seed.
ImportedRandom == [seed |-> -1, drawn |-> 0]

\* random.seed(a)
random_seed(a) == [seed |-> a, drawn |-> 0]

\* the generator r after n values were drawn
Drawn(r, n) == [r EXCEPT !.drawn = @ + n]

\* an outcome together with the generator the call leaves behind
Leaving(outcome, r) ==
  [raised |-> outcome.raised, value |-> outcome.value, rng |-> r]

ExprArgs == "{\"expression\": \"2+2\"}"
CityArgs == "{\"city\": \"Oslo\"}"
RomeArgs == "{\"city\": \"Rome\"}"
ListArgs == "[1]"
BadArgs == "{invalid"

\* json.loads on the argument strings the model can build: the documents
\* below are the only concatenations of argument fragments that parse.
\* kind is "object" for a dict (with its string members), "list" for a list.
json_loads(arguments) ==
  CASE arguments = ExprArgs ->
         [ok |-> TRUE, kind |-> "object", expression |-> "2+2", city |-> None,
          units |-> None]
    [] arguments = CityArgs ->
         [ok |-> TRUE, kind |-> "object", expression |-> None, city |-> "Oslo",
          units |-> None]
    [] arguments = RomeArgs ->
         [ok |-> TRUE, kind |-> "object", expression |-> None, city |-> "Rome",
          units |-> None]
    [] arguments = ListArgs ->
         [ok |-> TRUE, kind |-> "list", expression |-> None, city |-> None,
          units |-> None]
    [] OTHER ->
         [ok |-> FALSE, kind |-> None, expression |-> None, city |-> None,
          units |-> None]

\* dict.get(key, default) on a member of the parsed object
GetOr(v, default) == IF v = None THEN default ELSE v

calculate(expression) ==
  CASE expression = "2+2" -> Returned("4")
    [] expression = "" ->
         Returned("Error: Invalid expression syntax - invalid syntax (<string>, line 0)")
    [] OTHER -> Returned("Error: Use of '" \o expression \o "' is not allowed")

\* sum(ord(c) for c in city.lower()), for the cities the arguments name
SeedOf(city) ==
  CASE city = "Oslo" -> 445
    [] city = "Rome" -> 435
    [] OTHER -> 0

\* The values of randint(-10, 40), randint(30, 95), choice(conditions) and
\* randint(0, 50) drawn in this order from the generator r. For a generator
\* just seeded with the seed of a city they are the values the code draws;
\* for the other generator states they are values that differ from state
\* to state.
WeatherDraws(r) ==
  CASE r = random_seed(445) ->
         [temp_celsius |-> 25, humidity |-> 84, condition |-> "Rainy",
          wind_speed |-> 5]
    [] r = random_seed(435) ->
         [temp_celsius |-> 2, humidity |-> 92, condition |-> "Stormy",
          wind_speed |-> 3]
    [] OTHER ->
         [temp_celsius |-> ((r.seed + 7 * r.drawn + 11) % 51) - 10,
          humidity |-> 30 + ((r.seed + 5 * r.drawn + 13) % 66),
          condition |-> "Foggy",
          wind_speed |-> (r.seed + 3 * r.drawn + 17) % 51]

\* json.dumps(result, indent=2)
WeatherReport(city, units, d) ==
  LET fahrenheit == units = "fahrenheit"
      temp == IF fahrenheit THEN (18 * d.temp_celsius + 325) \div 10
              ELSE d.temp_celsius
      temp_unit == IF fahrenheit THEN "\\u00b0F" ELSE "\\u00b0C"
  IN "{\n  \"city\": \"" \o city
       \o "\",\n  \"temperature\": \"" \o ToString(temp) \o temp_unit
       \o "\",\n  \"condition\": \"" \o d.condition
       \o "\",\n  \"humidity\": \"" \o ToString(d.humidity)
       \o "%\",\n  \"wind_speed\": \"" \o ToString(d.wind_speed)
       \o " km/h\",\n  \"units\": \"" \o units \o "\"\n}"

\* get_weather without random.seed: it draws from the generator as it is
get_weather_unseeded(r, city, units) ==
  IF city = "" THEN Leaving(Returned("Error: City name is required"), r)
  ELSE Leaving(Returned(WeatherReport(city, units, WeatherDraws(r))),
               Drawn(r, 4))

\* r is the generator when the call is made
get_weather(r, city, units) ==
  IF city = "" THEN Leaving(Returned("Error: City name is required"), r)
  ELSE
    LET seeded == random_seed(SeedOf(city)) IN
    Leaving(Returned(WeatherReport(city, units, WeatherDraws(seeded))),
            Drawn(seeded, 4))

\* args.get on a parsed value that is no dict raises AttributeError
execute_tool(r, tool_name, arguments) ==
  IF arguments = None THEN
    Leaving(Raised("the JSON object must be str, bytes or bytearray, not NoneType"), r)
  ELSE
    LET args == json_loads(arguments) IN
    IF ~args.ok THEN
      Leaving(Returned("Error: Invalid JSON arguments: " \o arguments), r)
    ELSE IF tool_name = "calculate" THEN
      IF args.kind # "object" THEN
        Leaving(Raised("'" \o args.kind \o "' object has no attribute 'get'"), r)
      ELSE Leaving(calculate(GetOr(args.expression, "")), r)
    ELSE IF tool_name = "get_weather" THEN
      IF args.kind # "object" THEN
        Leaving(Raised("'" \o args.kind \o "' object has no attribute 'get'"), r)
      ELSE get_weather(r, GetOr(args.city, ""), GetOr(args.units, "celsius"))
    ELSE Leaving(Returned("Error: Unknown tool '" \o tool_name \o "'"), r)

\* ------------------------------------------------------------------------
\* event_generator: processing of one chunk of the first stream.
\* s is the record of the coroutine's locals, extended with
\*   out       the events yielded while the chunk is processed
\*   ran       the execute_tool calls made while the chunk is processed
\*   err       None, or str(error) of an exception raised in the chunk
\*   rng       the generator of the random module
\* ------------------------------------------------------------------------
Emit(s, evs) == [s EXCEPT !.out = @ \o evs]

\* lines 221-239 and 269-287: a plain span; whitespace-only text is dropped
EmitPlain(s, text) ==
  IF IsBlank(text) THEN s
  ELSE
    LET started ==
          IF ~s.has_started_text_message
          THEN [Emit(s, <<TextMessageStartEvent(s.message_id)>>)
                  EXCEPT !.has_started_text_message = TRUE]
          ELSE s
    IN [Emit(started, <<TextMessageContentEvent(s.message_id, text)>>)
          EXCEPT !.has_text_content = TRUE]

\* StartThinking without the has_started_thinking guard
StartThinkingUnguarded(s) ==
  [Emit(s, <<ThinkingStartEvent, ThinkingTextMessageStartEvent>>)
     EXCEPT !.is_in_thinking = TRUE, !.has_started_thinking = TRUE]

\* lines 241-258: enter thinking mode; the start events are guarded by
\* has_started_thinking
StartThinking(s) ==
  LET t == [s EXCEPT !.is_in_thinking = TRUE] IN
  IF ~t.has_started_thinking
  THEN [Emit(t, <<ThinkingStartEvent, ThinkingTextMessageStartEvent>>)
          EXCEPT !.has_started_thinking = TRUE]
  ELSE t

\* lines 297-304 and 330-337: thinking content; whitespace-only is dropped
EmitThinking(s, text) ==
  IF IsBlank(text) THEN s
  ELSE Emit(s, <<ThinkingTextMessageContentEvent(text)>>)

\* lines 306-320: leave thinking mode; the end events are not guarded
EndThinking(s) ==
  [Emit(s, <<ThinkingTextMessageEndEvent, ThinkingEndEvent>>)
     EXCEPT !.is_in_thinking = FALSE]

\* lines 213-339: the while True loop over content_buffer
RECURSIVE ProcessBuffer(_)
ProcessBuffer(s) ==
  IF ~s.is_in_thinking THEN
    IF Contains(s.content_buffer, OpenTag) THEN
      LET before == SplitBefore(s.content_buffer, OpenTag)
          after == SplitAfter(s.content_buffer, OpenTag)
      IN ProcessBuffer([StartThinking(EmitPlain(s, before))
                          EXCEPT !.content_buffer = after])
    ELSE IF PartialTagWait(s.content_buffer) THEN s
    ELSE [EmitPlain(s, s.content_buffer) EXCEPT !.content_buffer = <<>>]
  ELSE
    IF Contains(s.content_buffer, CloseTag) THEN
      LET thinking_content == SplitBefore(s.content_buffer, CloseTag)
          after == SplitAfter(s.content_buffer, CloseTag)
      IN ProcessBuffer([EndThinking(EmitThinking(s, thinking_content))
                          EXCEPT !.content_buffer = after])
    ELSE IF PartialTagWait(s.content_buffer) THEN s
    ELSE [EmitThinking(s, s.content_buffer) EXCEPT !.content_buffer = <<>>]

\* lines 208-210: if delta.content: content_buffer += delta.content
HandleContent(s, content) ==
  IF content # <<>>
  THEN ProcessBuffer([s EXCEPT !.content_buffer = @ \o content])
  ELSE s

\* one call of execute_tool on the pending call, logged in ran
RunPending(s) ==
  LET r == execute_tool(s.rng, s.current_tool_call_name,
                        s.current_tool_call_args)
      entry == [tool_call_id |-> s.current_tool_call_id,
                name |-> s.current_tool_call_name,
                arguments |-> s.current_tool_call_args,
                raised |-> r.raised,
                result |-> r.value]
  IN [s EXCEPT !.ran = Append(@, entry),
               !.rng = r.rng,
               !.err = IF r.raised THEN r.value ELSE None]

\* ClosePrevious that leaves the pending call open
ClosePreviousSkipped(s) == s

\* lines 349-361: a new call id ends the pending call, if there is one
ClosePrevious(s) ==
  IF Truthy(s.current_tool_call_id) THEN
    LET t == RunPending(s) IN
    IF t.err # None THEN t
    ELSE Emit(t, <<ToolCallEndEvent(t.current_tool_call_id,
                                    t.ran[Len(t.ran)].result)>>)
  ELSE s

\* lines 363-375: the new call becomes the pending call
StartCall(s, tool_call) ==
  LET t == [s EXCEPT
              !.current_tool_call_id = tool_call.id,
              !.current_tool_call_name =
                 IF tool_call.function THEN tool_call.name ELSE None,
              !.current_tool_call_args =
                 IF tool_call.function THEN tool_call.arguments ELSE ""]
  IN Emit(t, <<ToolCallStartEvent(t.current_tool_call_id,
                                  t.current_tool_call_name, t.message_id)>>)

\* AppendArgs that tests tool_call.function only, not the fragment
AppendArgsAlways(s, tool_call) ==
  IF tool_call.function THEN
    IF s.current_tool_call_args = None THEN
      [s EXCEPT !.err =
         "unsupported operand type(s) for +=: 'NoneType' and 'str'"]
    ELSE
      Emit([s EXCEPT !.current_tool_call_args = @ \o tool_call.arguments],
           <<ToolCallArgsEvent(s.current_tool_call_id, tool_call.arguments)>>)
  ELSE s

\* lines 378-388: an argument fragment; str += on None raises TypeError
AppendArgs(s, tool_call) ==
  IF tool_call.function /\ Truthy(tool_call.arguments) THEN
    IF s.current_tool_call_args = None THEN
      [s EXCEPT !.err =
         "unsupported operand type(s) for +=: 'NoneType' and 'str'"]
    ELSE
      Emit([s EXCEPT !.current_tool_call_args = @ \o tool_call.arguments],
           <<ToolCallArgsEvent(s.current_tool_call_id, tool_call.arguments)>>)
  ELSE s

\* lines 344-388: the body of the loop over delta.tool_calls
HandleToolCall(s, tool_call) ==
  LET closed == IF Truthy(tool_call.id) THEN ClosePrevious(s) ELSE s IN
  IF closed.err # None THEN closed
  ELSE
    LET started == IF Truthy(tool_call.id) THEN StartCall(closed, tool_call)
                   ELSE closed
    IN AppendArgs(started, tool_call)

\* lines 342-344: for tool_call in delta.tool_calls
RECURSIVE HandleToolCalls(_, _)
HandleToolCalls(s, tool_calls) ==
  IF tool_calls = <<>> \/ s.err # None THEN s
  ELSE HandleToolCalls(HandleToolCall(s, Head(tool_calls)), Tail(tool_calls))

\* lines 395-414: tool_results = [] and the pending call, if there is one
ClosePending(s) ==
  LET fresh == [s EXCEPT !.tool_results = <<>>] IN
  IF Truthy(fresh.current_tool_call_id) THEN
    LET t == RunPending(fresh) IN
    IF t.err # None THEN t
    ELSE
      LET result == t.ran[Len(t.ran)].result IN
      [Emit(t, <<ToolCallEndEvent(t.current_tool_call_id, result)>>)
         EXCEPT !.tool_results =
           Append(@, [tool_call_id |-> t.current_tool_call_id,
                      name |-> t.current_tool_call_name,
                      arguments |-> t.current_tool_call_args,
                      result |-> result])]
  ELSE fresh

\* lines 416-424: end the text message if it was started
EndTextMessage(s) ==
  IF s.has_started_text_message
  THEN Emit(s, <<TextMessageEndEvent(s.message_id)>>)
  ELSE s

\* line 427: if choice.finish_reason == "tool_calls" and tool_results
WantsContinuation(s, finish_reason) ==
  finish_reason = "tool_calls" /\ s.tool_results # <<>>

\* lines 391-427: if choice.finish_reason, up to the continuation call
HandleFinish(s, finish_reason) ==
  IF Truthy(finish_reason) THEN
    LET closed == ClosePending(s) IN
    IF closed.err # None THEN closed
    ELSE
      LET ended == EndTextMessage(closed) IN
      [ended EXCEPT !.continuation = WantsContinuation(ended, finish_reason)]
  ELSE s

\* lines 201-427: one iteration of async for chunk in stream
ProcessChunk(s, chunk) ==
  IF ~chunk.choices THEN s
  ELSE
    LET texted == HandleContent(s, chunk.content)
        tooled == IF chunk.tool_calls # <<>>
                  THEN HandleToolCalls(texted, chunk.tool_calls)
                  ELSE texted
    IN IF tooled.err # None THEN tooled
       ELSE HandleFinish(tooled, chunk.finish_reason)

\* lines 431-456: the assistant message with the tool calls and one tool
\* message per entry of tool_results
AssistantToolCalls(tool_results) ==
  [i \in 1..Len(tool_results) |->
     [id |-> tool_results[i].tool_call_id,
      type |-> "function",
      name |-> tool_results[i].name,
      arguments |-> tool_results[i].arguments]]

ToolMessages(tool_results) ==
  [i \in 1..Len(tool_results) |->
     [role |-> "tool",
      tool_call_id |-> tool_results[i].tool_call_id,
      content |-> tool_results[i].result]]

\* ContinuationMessages that sends the tool round alone, without the
\* messages of the first call
ContinuationMessagesAlone(msgs, tool_results) ==
  <<[role |-> "assistant", content |-> None,
     tool_calls |-> AssistantToolCalls(tool_results)]>>
    \o ToolMessages(tool_results)

ContinuationMessages(msgs, tool_results) ==
  Append(msgs, [role |-> "assistant", content |-> None,
                tool_calls |-> AssistantToolCalls(tool_results)])
    \o ToolMessages(tool_results)

\* lines 471-504: one iteration of async for cont_chunk in
\* continuation_stream; c holds continuation_message_id,
\* continuation_started and out
ProcessContChunk(c, chunk) ==
  IF ~chunk.choices THEN c
  ELSE
    LET texted ==
          IF chunk.content # <<>> THEN
            LET started ==
                  IF ~c.continuation_started
                  THEN [c EXCEPT
                          !.out = Append(@, TextMessageStartEvent(
                                              c.continuation_message_id)),
                          !.continuation_started = TRUE]
                  ELSE c
            IN [started EXCEPT
                  !.out = Append(@, TextMessageContentEvent(
                                      c.continuation_message_id, chunk.content))]
          ELSE c
    IN IF Truthy(chunk.finish_reason) /\ texted.continuation_started
       THEN [texted EXCEPT
               !.out = Append(@, TextMessageEndEvent(c.continuation_message_id))]
       ELSE texted

\* ------------------------------------------------------------------------
\* Inputs: the request's conversation, the upstream chunks, upstream errors
\* ------------------------------------------------------------------------
SystemPrompt == "You are a helpful AI assistant. ..."

\* input_data.messages; tool_calls is <<>> and tool_call_id is None where
\* the message has none
UserMessage(text) ==
  [role |-> "user", content |-> text, tool_calls |-> <<>>, tool_call_id |-> None]

InputConversations ==
  { <<UserMessage("2+2?"),
      [role |-> "assistant", content |-> None,
       tool_calls |-> <<[id |-> "Z", name |-> "calculate", arguments |-> ExprArgs]>>,
       tool_call_id |-> None],
      [role |-> "tool", content |-> "4", tool_calls |-> <<>>, tool_call_id |-> "Z"],
      UserMessage("and again?")>> }

\* lines 153-176: one message in the upstream format
ConvertMessage(message) ==
  LET base == [role |-> message.role, content |-> GetOr(message.content, "")]
      withCalls ==
        IF message.role = "assistant" /\ message.tool_calls # <<>>
        THEN base @@ [tool_calls |->
               [i \in 1..Len(message.tool_calls) |->
                  [id |-> message.tool_calls[i].id,
                   type |-> "function",
                   name |-> message.tool_calls[i].name,
                   arguments |-> message.tool_calls[i].arguments]]]
        ELSE base
  IN IF message.role = "tool"
     THEN withCalls @@ [tool_call_id |-> message.tool_call_id]
     ELSE withCalls

\* lines 151-176
BuildMessages(conversation) ==
  <<[role |-> "system", content |-> SystemPrompt]>>
    \o [i \in 1..Len(conversation) |-> ConvertMessage(conversation[i])]

\* str(error) of the exception an upstream call or stream raises
ErrorMessages == {"connection reset", "rate limited"}

\* a chunk: choices is FALSE for a chunk with an empty choices list; content
\* is <<>> and finish_reason is None where the chunk carries none
Chunk(content, tool_calls, finish_reason) ==
  [choices |-> TRUE, content |-> content, tool_calls |-> tool_calls,
   finish_reason |-> finish_reason]

NoChoiceChunk ==
  [choices |-> FALSE, content |-> <<>>, tool_calls |-> <<>>,
   finish_reason |-> None]

\* a tool-call delta; function is FALSE where tool_call.function is None
ToolDelta(id, name, arguments) ==
  [id |-> id, function |-> TRUE, name |-> name, arguments |-> arguments]

BareDelta(id) ==
  [id |-> id, function |-> FALSE, name |-> None, arguments |-> None]

ContentFragments ==
  { <<"a">>,
    <<" ">>,
    OpenTag \o <<"r">>,
    CloseTag \o <<"b">>,
    OpenTag \o <<"r">> \o CloseTag \o <<"b">>,
    <<"<", "t", "h", "i">>,
    <<"n", "k", "i", "n", "g", ">">> }

ToolDeltas ==
  { ToolDelta("A", "calculate", ""),
    ToolDelta("B", "get_weather", ""),
    ToolDelta("B", "calculate", ExprArgs),
    BareDelta("A"),
    BareDelta(None),
    ToolDelta(None, None, ExprArgs),
    ToolDelta(None, None, CityArgs),
    ToolDelta(None, None, ListArgs),
    ToolDelta(None, None, BadArgs) }

\* chunks that carry nothing: no content, no finish reason, and no tool-call
\* delta or one without a call id and without an argument fragment
EmptyChunks ==
  { Chunk(<<>>, <<>>, None),
    Chunk(<<>>, <<BareDelta(None)>>, None),
    Chunk(<<>>, <<ToolDelta(None, None, "")>>, None) }

FinishReasons == {"stop", "tool_calls", "length"}

\* A chunk is processed part by part (content, then tool calls, then finish
\* reason), so a chunk carrying several parts acts as the chunks carrying
\* one part each, in that order; the last chunk exercises that order.
Chunks ==
  {Chunk(c, <<>>, None) : c \in ContentFragments}
    \cup {Chunk(<<>>, <<d>>, None) : d \in ToolDeltas}
    \cup {Chunk(<<>>, <<>>, f) : f \in FinishReasons}
    \cup EmptyChunks
    \cup { NoChoiceChunk,
           Chunk(<<"a">>, <<ToolDelta("A", "calculate", ""),
                            ToolDelta(None, None, ExprArgs)>>, "tool_calls") }

ContChunks ==
  { Chunk(<<"o", "k">>, <<>>, None),
    Chunk(<<" ">>, <<>>, None),
    Chunk(<<>>, <<>>, "stop"),
    Chunk(<<>>, <<ToolDelta("A", "calculate", ExprArgs)>>, "tool_calls"),
    NoChoiceChunk }

\* ------------------------------------------------------------------------
\* State
\* ------------------------------------------------------------------------
VARIABLES
  pc,                        \* position of event_generator
  conversation,              \* input_data.messages
  events,                    \* the events yielded so far
  messages,                  \* the message list passed to the model
  calls,                     \* the model calls made: [tools, messages]
  uuids,                     \* number of uuid4 values drawn
  message_id,
  thinking_message_id,
  current_tool_call_id,
  current_tool_call_name,
  current_tool_call_args,
  has_text_content,
  has_started_text_message,
  has_started_thinking,
  is_in_thinking,
  content_buffer,
  continuation_message_id,
  continuation_started,
  executed,                  \* the execute_tool calls made so far
  upstream_error,            \* str(error) of the upstream exception, or None
  finish_seen,               \* the finish reasons handled in the first stream
  nchunks,                   \* chunks read from the upstream so far
  inputs,                    \* the chunks read from the first stream
  cont_inputs,               \* the chunks read from continuation streams
  rng,                       \* the generator of the random module
  split,                     \* a text fed whole and fed as two fragments
  runs,                      \* two runs whose steps interleave
  solo                       \* the same two runs, each running alone

locals ==
  <<message_id, thinking_message_id, current_tool_call_id,
    current_tool_call_name, current_tool_call_args, has_text_content,
    has_started_text_message, has_started_thinking, is_in_thinking,
    content_buffer>>

contLocals == <<continuation_message_id, continuation_started>>

\* the variables of one run of event_generator
runVars ==
  <<pc, conversation, events, messages, calls, uuids, locals, contLocals,
    executed, upstream_error, finish_seen, nchunks, inputs, cont_inputs>>

\* the variables of the comparisons of runs
others == <<split, runs, solo>>

vars == <<runVars, rng, others>>

\* the comparisons are not running
NoSplit == <<>>
NoRuns == <<>>

\* the generator object is created, not yet started
RunInit ==
  /\ pc = "start"
  /\ conversation \in InputConversations
  /\ events = <<>>
  /\ messages = <<>>
  /\ calls = <<>>
  /\ uuids = 0
  /\ message_id = 0
  /\ thinking_message_id = 0
  /\ current_tool_call_id = None
  /\ current_tool_call_name = None
  /\ current_tool_call_args = ""
  /\ has_text_content = FALSE
  /\ has_started_text_message = FALSE
  /\ has_started_thinking = FALSE
  /\ is_in_thinking = FALSE
  /\ content_buffer = <<>>
  /\ continuation_message_id = 0
  /\ continuation_started = FALSE
  /\ executed = <<>>
  /\ upstream_error = None
  /\ finish_seen = <<>>
  /\ nchunks = 0
  /\ inputs = <<>>
  /\ cont_inputs = <<>>

Init ==
  /\ RunInit
  /\ rng = ImportedRandom
  /\ split = NoSplit
  /\ runs = NoRuns
  /\ solo = NoRuns

\* Fail with the exception handled inside the loop: the run goes on
FailKeepsRunning(evs, msg) ==
  /\ events' = Append(evs, RunErrorEvent(msg))
  /\ pc' = pc

\* Fail reporting a fixed text instead of str(error)
FailGenericMessage(evs, msg) ==
  /\ events' = Append(evs, RunErrorEvent("Internal server error"))
  /\ pc' = "done"

\* lines 516-523: except Exception: yield RUN_ERROR, and the generator ends
Fail(evs, msg) ==
  /\ events' = Append(evs, RunErrorEvent(msg))
  /\ pc' = "done"

\* RunStart that builds the message list without yielding RUN_STARTED
RunStartSilent ==
  /\ pc = "start"
  /\ events' = events
  /\ messages' = BuildMessages(conversation)
  /\ pc' = "create"
  /\ UNCHANGED <<conversation, calls, uuids, locals, contLocals, executed,
                 upstream_error, nchunks, finish_seen,
                 inputs, cont_inputs>>
  /\ UNCHANGED <<rng, others>>

\* lines 119-176: RUN_STARTED, then the message list is built
RunStart ==
  /\ pc = "start"
  /\ events' = Append(events, RunStartedEvent)
  /\ messages' = BuildMessages(conversation)
  /\ pc' = "create"
  /\ UNCHANGED <<conversation, calls, uuids, locals, contLocals, executed,
                 upstream_error, nchunks, finish_seen,
                 inputs, cont_inputs>>
  /\ UNCHANGED <<rng, others>>

\* lines 180-197: the first model call succeeds; the locals are set
CreateStream ==
  /\ pc = "create"
  /\ calls' = Append(calls, [tools |-> TRUE, messages |-> messages])
  /\ message_id' = uuids + 1
  /\ thinking_message_id' = uuids + 2
  /\ uuids' = uuids + 2
  /\ current_tool_call_id' = None
  /\ current_tool_call_name' = None
  /\ current_tool_call_args' = ""
  /\ has_text_content' = FALSE
  /\ has_started_text_message' = FALSE
  /\ has_started_thinking' = FALSE
  /\ is_in_thinking' = FALSE
  /\ content_buffer' = <<>>
  /\ pc' = "stream"
  /\ UNCHANGED <<conversation, events, messages, contLocals, executed,
                 upstream_error, nchunks, finish_seen,
                 inputs, cont_inputs>>
  /\ UNCHANGED <<rng, others>>

\* line 180: the first model call raises
CreateStreamRaise ==
  /\ pc = "create"
  /\ \E e \in ErrorMessages :
       /\ upstream_error' = e
       /\ Fail(events, e)
  /\ calls' = Append(calls, [tools |-> TRUE, messages |-> messages])
  /\ UNCHANGED <<conversation, messages, uuids, locals, contLocals, executed,
                 nchunks, finish_seen,
                 inputs, cont_inputs>>
  /\ UNCHANGED <<rng, others>>

\* the coroutine's locals as the record the chunk operators work on
Locals ==
  [message_id |-> message_id,
   current_tool_call_id |-> current_tool_call_id,
   current_tool_call_name |-> current_tool_call_name,
   current_tool_call_args |-> current_tool_call_args,
   has_text_content |-> has_text_content,
   has_started_text_message |-> has_started_text_message,
   has_started_thinking |-> has_started_thinking,
   is_in_thinking |-> is_in_thinking,
   content_buffer |-> content_buffer,
   tool_results |-> <<>>,
   continuation |-> FALSE,
   out |-> <<>>,
   ran |-> <<>>,
   err |-> None,
   rng |-> rng]

\* lines 200-464: the first stream delivers a chunk. An exception raised
\* while it is processed ends the run; finish reason tool_calls with a
\* tool result appends the tool messages and goes on to the second call.
StreamChunk ==
  /\ pc = "stream"
  /\ nchunks < MaxChunks
  /\ \E chunk \in Chunks :
       \E s \in {ProcessChunk(Locals, chunk)} :
       /\ inputs' = Append(inputs, chunk)
       /\ rng' = s.rng
       /\ current_tool_call_id' = s.current_tool_call_id
       /\ current_tool_call_name' = s.current_tool_call_name
       /\ current_tool_call_args' = s.current_tool_call_args
       /\ has_text_content' = s.has_text_content
       /\ has_started_text_message' = s.has_started_text_message
       /\ has_started_thinking' = s.has_started_thinking
       /\ is_in_thinking' = s.is_in_thinking
       /\ content_buffer' = s.content_buffer
       /\ executed' = executed \o s.ran
       /\ finish_seen' =
            IF chunk.choices /\ Truthy(chunk.finish_reason) /\ s.err = None
            THEN Append(finish_seen, chunk.finish_reason)
            ELSE finish_seen
       /\ IF s.err # None
          THEN /\ Fail(events \o s.out, s.err)
               /\ UNCHANGED messages
          ELSE /\ events' = events \o s.out
               /\ IF s.continuation
                  THEN /\ messages' = ContinuationMessages(messages, s.tool_results)
                       /\ pc' = "cont_create"
                  ELSE /\ UNCHANGED messages
                       /\ pc' = "stream"
  /\ nchunks' = nchunks + 1
  /\ UNCHANGED <<conversation, calls, uuids, message_id, thinking_message_id,
                 contLocals, upstream_error, cont_inputs>>
  /\ UNCHANGED others

\* line 200: the first stream raises while the next chunk is awaited
StreamRaise ==
  /\ pc = "stream"
  /\ \E e \in ErrorMessages :
       /\ upstream_error' = e
       /\ Fail(events, e)
  /\ UNCHANGED <<conversation, messages, calls, uuids, locals, contLocals,
                 executed, nchunks, finish_seen,
                 inputs, cont_inputs>>
  /\ UNCHANGED <<rng, others>>

\* lines 506-514: the first stream is exhausted: RUN_FINISHED
StreamEnd ==
  /\ pc = "stream"
  /\ events' = Append(events, RunFinishedEvent)
  /\ pc' = "done"
  /\ UNCHANGED <<conversation, messages, calls, uuids, locals, contLocals,
                 executed, upstream_error, nchunks, finish_seen,
                 inputs, cont_inputs>>
  /\ UNCHANGED <<rng, others>>

\* lines 460-468: the continuation call, without tools, succeeds
ContCreate ==
  /\ pc = "cont_create"
  /\ calls' = Append(calls, [tools |-> FALSE, messages |-> messages])
  /\ continuation_message_id' = uuids + 1
  /\ uuids' = uuids + 1
  /\ continuation_started' = FALSE
  /\ pc' = "cont"
  /\ UNCHANGED <<conversation, events, messages, locals, executed,
                 upstream_error, nchunks, finish_seen,
                 inputs, cont_inputs>>
  /\ UNCHANGED <<rng, others>>

\* line 460: the continuation call raises
ContCreateRaise ==
  /\ pc = "cont_create"
  /\ \E e \in ErrorMessages :
       /\ upstream_error' = e
       /\ Fail(events, e)
  /\ calls' = Append(calls, [tools |-> FALSE, messages |-> messages])
  /\ UNCHANGED <<conversation, messages, uuids, locals, contLocals, executed,
                 nchunks, finish_seen,
                 inputs, cont_inputs>>
  /\ UNCHANGED <<rng, others>>

\* lines 470-504: the continuation stream delivers a chunk
ContChunk ==
  /\ pc = "cont"
  /\ nchunks < MaxChunks
  /\ \E chunk \in ContChunks :
       LET c == ProcessContChunk(
                  [continuation_message_id |-> continuation_message_id,
                   continuation_started |-> continuation_started,
                   out |-> <<>>], chunk)
       IN /\ events' = events \o c.out
          /\ continuation_started' = c.continuation_started
          /\ cont_inputs' = Append(cont_inputs, chunk)
  /\ nchunks' = nchunks + 1
  /\ UNCHANGED <<pc, conversation, messages, calls, uuids, locals,
                 continuation_message_id, executed, upstream_error, finish_seen,
                 inputs>>
  /\ UNCHANGED <<rng, others>>

\* line 470: the continuation stream raises
ContRaise ==
  /\ pc = "cont"
  /\ \E e \in ErrorMessages :
       /\ upstream_error' = e
       /\ Fail(events, e)
  /\ UNCHANGED <<conversation, messages, calls, uuids, locals, contLocals,
                 executed, nchunks, finish_seen,
                 inputs, cont_inputs>>
  /\ UNCHANGED <<rng, others>>

\* line 470: the continuation stream is exhausted; the loop over the first
\* stream goes on
ContEnd ==
  /\ pc = "cont"
  /\ pc' = "stream"
  /\ UNCHANGED <<conversation, events, messages, calls, uuids, locals,
                 contLocals, executed, upstream_error, nchunks, finish_seen,
                 inputs, cont_inputs>>
  /\ UNCHANGED <<rng, others>>

Next ==
  \/ RunStart
  \/ CreateStream
  \/ CreateStreamRaise
  \/ StreamChunk
  \/ StreamRaise
  \/ StreamEnd
  \/ ContCreate
  \/ ContCreateRaise
  \/ ContChunk
  \/ ContRaise
  \/ ContEnd

Spec == Init /\ [][Next]_vars

\* ------------------------------------------------------------------------
\* Properties
\* ------------------------------------------------------------------------
\* positions of the events of a type, and their number
Indices(T) == {i \in 1..Len(events) : events[i].type = T}
Count(T) == Cardinality(Indices(T))

IsTerminal(e) == e.type \in {"RUN_FINISHED", "RUN_ERROR"}
LastEvent == events[Len(events)]

\* C1: a run emits exactly one terminal event, RUN_FINISHED or RUN_ERROR:
\* a terminal event is the last event, it is there when the generator has
\* ended, and only then.
C1_ExactlyOneTerminal ==
  /\ \A i \in 1..Len(events) : IsTerminal(events[i]) => i = Len(events)
  /\ pc = "done" <=> (events # <<>> /\ IsTerminal(LastEvent))

\* a tool raised after events of a tool call were emitted
C1_Witness ==
  /\ pc = "done"
  /\ LastEvent.type = "RUN_ERROR"
  /\ \E i \in 1..Len(executed) : executed[i].raised
  /\ Count("TOOL_CALL_ARGS") > 0

\* C2: when the upstream raises (creating or consuming either stream), the
\* run ends with one RUN_ERROR that carries the error's message; it is the
\* last event and there is no RUN_FINISHED.
C2_UpstreamErrorReported ==
  upstream_error # None =>
    /\ pc = "done"
    /\ LastEvent = RunErrorEvent(upstream_error)
    /\ Count("RUN_ERROR") = 1
    /\ Count("RUN_FINISHED") = 0

\* the continuation stream raised after its text message was started
C2_Witness ==
  /\ upstream_error # None
  /\ Len(calls) = 2
  /\ continuation_started

\* C6: TEXT_MESSAGE_START is emitted at most once per message id and before
\* every TEXT_MESSAGE_CONTENT of that id; THINKING_START and
\* THINKING_TEXT_MESSAGE_START are emitted at most once, the second right
\* after the first, and before every THINKING_TEXT_MESSAGE_CONTENT.
C6_StartOnceBeforeContent ==
  /\ \A i, j \in Indices("TEXT_MESSAGE_START") :
       events[i].message_id = events[j].message_id => i = j
  /\ \A j \in Indices("TEXT_MESSAGE_CONTENT") :
       \E i \in Indices("TEXT_MESSAGE_START") :
         i < j /\ events[i].message_id = events[j].message_id
  /\ Count("THINKING_START") <= 1
  /\ Count("THINKING_TEXT_MESSAGE_START") <= 1
  /\ \A i \in Indices("THINKING_START") :
       i < Len(events) /\ events[i + 1].type = "THINKING_TEXT_MESSAGE_START"
  /\ \A j \in Indices("THINKING_TEXT_MESSAGE_CONTENT") :
       \E i \in Indices("THINKING_TEXT_MESSAGE_START") :
         i < j /\ i - 1 \in Indices("THINKING_START")

\* a turn with two reasoning spans and a text message
C6_Witness ==
  /\ Count("THINKING_TEXT_MESSAGE_CONTENT") >= 2
  /\ Count("THINKING_TEXT_MESSAGE_END") >= 2
  /\ Count("TEXT_MESSAGE_CONTENT") >= 1

\* the TOOL_CALL_END events, as (id, result), and the completed executions
EndedCalls ==
  LET ends == SelectSeq(events, LAMBDA e : e.type = "TOOL_CALL_END") IN
  [i \in 1..Len(ends) |-> <<ends[i].tool_call_id, ends[i].result>>]

CompletedExecutions ==
  LET done == SelectSeq(executed, LAMBDA x : ~x.raised) IN
  [i \in 1..Len(done) |-> <<done[i].tool_call_id, done[i].result>>]

\* C10: when a call id arrives while a call is open, the open call is
\* executed and its TOOL_CALL_END (with the execution's result) is emitted
\* before the TOOL_CALL_START of the new call: between two TOOL_CALL_START
\* events there is a TOOL_CALL_END of the first one's id.
C10_PreviousClosedBeforeStart ==
  /\ \A i, j \in Indices("TOOL_CALL_START") :
       i < j =>
         \E k \in Indices("TOOL_CALL_END") :
           i < k /\ k < j /\ events[k].tool_call_id = events[i].tool_call_id
  /\ EndedCalls = CompletedExecutions

\* id A, then id B, with no finish reason in between
C10_Witness ==
  /\ finish_seen = <<>>
  /\ \E i, j \in Indices("TOOL_CALL_START") :
       /\ i < j
       /\ events[i].tool_call_id = "A"
       /\ events[j].tool_call_id = "B"
  /\ Len(executed) = 1

\* C3: every text message that was opened (TEXT_MESSAGE_START with id m) is
\* closed by exactly one TEXT_MESSAGE_END with id m, emitted after the start
\* and before the run's terminal event.
C3_TextMessageClosedOnce ==
  pc = "done" =>
    \A i \in Indices("TEXT_MESSAGE_START") :
      \E j \in Indices("TEXT_MESSAGE_END") :
        /\ events[j].message_id = events[i].message_id
        /\ i < j
        /\ j < Len(events)
        /\ \A k \in Indices("TEXT_MESSAGE_END") :
             events[k].message_id = events[i].message_id => k = j

\* the TOOL_CALL_END events that close the call started at position i: those
\* of its id after i, before the terminal event and before the id is started
\* again
EndsFor(i) ==
  {k \in Indices("TOOL_CALL_END") :
     /\ i < k
     /\ k < Len(events)
     /\ events[k].tool_call_id = events[i].tool_call_id
     /\ \A j \in Indices("TOOL_CALL_START") :
          (i < j /\ events[j].tool_call_id = events[i].tool_call_id) => k < j}

\* C4: every tool call that was opened (TOOL_CALL_START with id c) is
\* executed exactly once and closed by exactly one TOOL_CALL_END with id c
\* before the run's terminal event, never a second time.
C4_ToolCallClosedOnce ==
  pc = "done" =>
    /\ \A i \in Indices("TOOL_CALL_START") : Cardinality(EndsFor(i)) = 1
    /\ Len(executed) = Count("TOOL_CALL_START")
    /\ Count("TOOL_CALL_END") = Count("TOOL_CALL_START")

\* the events of types S and E are, in order, S, E, S, E, ...
Alternates(S, E) ==
  LET p == SelectSeq(events, LAMBDA e : e.type \in {S, E}) IN
  \A k \in 1..Len(p) : p[k].type = IF k % 2 = 1 THEN S ELSE E

\* C5: the THINKING_START/THINKING_END events and the
\* THINKING_TEXT_MESSAGE_START/THINKING_TEXT_MESSAGE_END events each strictly
\* alternate beginning with a start, for any number of reasoning spans, and
\* their counts are equal when the run's terminal event is emitted.
C5_ThinkingPairsBalanced ==
  /\ Alternates("THINKING_START", "THINKING_END")
  /\ Alternates("THINKING_TEXT_MESSAGE_START", "THINKING_TEXT_MESSAGE_END")
  /\ pc = "done" =>
       /\ Count("THINKING_START") = Count("THINKING_END")
       /\ Count("THINKING_TEXT_MESSAGE_START")
            = Count("THINKING_TEXT_MESSAGE_END")

\* all executions, as (id, result)
AllExecutions ==
  [i \in 1..Len(executed) |-> <<executed[i].tool_call_id, executed[i].result>>]

\* C7: executing a tool never raises, whatever the name and the argument
\* payload: every execution returns a text, TOOL_CALL_END fires with that
\* text, and a run whose upstream does not fail ends with RUN_FINISHED.
C7_ToolNeverRaises ==
  /\ \A i \in 1..Len(executed) : ~executed[i].raised
  /\ EndedCalls = AllExecutions
  /\ (pc = "done" /\ upstream_error = None) => LastEvent.type = "RUN_FINISHED"

\* the finish reasons tool_calls handled in the first stream
ToolCallFinishes ==
  Cardinality({i \in 1..Len(finish_seen) : finish_seen[i] = "tool_calls"})

\* C8: a run makes at most two model calls; every turn that ends with finish
\* reason tool_calls is followed by one continuation call and a turn that
\* ends with another finish reason by none; the continuation call offers no
\* tools.
C8_OneContinuation ==
  /\ Len(calls) <= 2
  /\ \A i \in 2..Len(calls) : ~calls[i].tools
  /\ pc \in {"stream", "cont", "done"} /\ calls # <<>> =>
       Len(calls) = 1 + ToolCallFinishes

\* C9: the message list of the continuation call is the first call's list,
\* then one assistant message listing every tool call executed in the turn,
\* then one tool message per executed call with the call's id and result.
C9_AllExecutedCallsSent ==
  (pc = "cont_create" /\ Len(calls) = 1) =>
    LET extra == SubSeq(messages, Len(calls[1].messages) + 1, Len(messages)) IN
    /\ SubSeq(messages, 1, Len(calls[1].messages)) = calls[1].messages
    /\ Len(extra) = 1 + Len(executed)
    /\ extra[1].role = "assistant"
    /\ Len(extra[1].tool_calls) = Len(executed)
    /\ \A i \in 1..Len(executed) :
         /\ extra[1].tool_calls[i].id = executed[i].tool_call_id
         /\ extra[1].tool_calls[i].name = executed[i].name
         /\ extra[1].tool_calls[i].arguments = executed[i].arguments
         /\ extra[1 + i] = [role |-> "tool",
                            tool_call_id |-> executed[i].tool_call_id,
                            content |-> executed[i].result]

\* ------------------------------------------------------------------------
\* The content received and the text emitted
\* ------------------------------------------------------------------------
\* the concatenation of the content fragments of a sequence of chunks
RECURSIVE ConcatContent(_)
ConcatContent(chunks) ==
  IF chunks = <<>> THEN <<>>
  ELSE Head(chunks).content \o ConcatContent(Tail(chunks))

\* the concatenation of the deltas of the events of the types in T
RECURSIVE ConcatDeltas(_, _)
ConcatDeltas(evs, T) ==
  IF evs = <<>> THEN <<>>
  ELSE (IF Head(evs).type \in T THEN Head(evs).delta ELSE <<>>)
         \o ConcatDeltas(Tail(evs), T)

\* s without its leading and trailing whitespace
Trim(s) ==
  LET solid == {i \in 1..Len(s) : s[i] \notin Whitespace} IN
  IF solid = {} THEN <<>>
  ELSE SubSeq(s, CHOOSE i \in solid : \A j \in solid : i <= j,
                 CHOOSE i \in solid : \A j \in solid : j <= i)

ThinkingTypes ==
  {"THINKING_START", "THINKING_END", "THINKING_TEXT_MESSAGE_START",
   "THINKING_TEXT_MESSAGE_CONTENT", "THINKING_TEXT_MESSAGE_END"}

\* a chunk that carries a content fragment and nothing else
IsTextChunk(c) ==
  c.choices /\ c.content # <<>> /\ c.tool_calls = <<>> /\ c.finish_reason = None

\* a chunk that carries a finish reason and nothing else
IsFinishChunk(c) ==
  c.choices /\ c.content = <<>> /\ c.tool_calls = <<>> /\ Truthy(c.finish_reason)

\* the first stream has delivered text fragments, then a finish reason
TextThenFinish ==
  /\ Len(inputs) >= 2
  /\ \A i \in 1..(Len(inputs) - 1) : IsTextChunk(inputs[i])
  /\ IsFinishChunk(inputs[Len(inputs)])

\* C11: when the fragments of a turn contain no delimiter in their
\* concatenation and a finish reason follows, the turn emits one plain span
\* (one text message) whose text is the trimmed concatenation of the
\* fragments, nothing if that is empty, and it emits no reasoning event.
C11_PlainTextEmittedTrimmed ==
  (/\ TextThenFinish
   /\ ~Contains(ConcatContent(inputs), OpenTag)
   /\ ~Contains(ConcatContent(inputs), CloseTag)) =>
    /\ ConcatDeltas(events, {"TEXT_MESSAGE_CONTENT"}) = Trim(ConcatContent(inputs))
    /\ Count("TEXT_MESSAGE_START") <= 1
    /\ Count("TEXT_MESSAGE_START") = Count("TEXT_MESSAGE_END")
    /\ \A i \in 1..Len(events) : events[i].type \notin ThinkingTypes

\* ------------------------------------------------------------------------
\* Split-invariance of the delimiter scan: a text is fed to the content
\* branch of the loop (lines 208-339) once whole and once as two fragments
\* cut inside a delimiter, from the same state.
\* ------------------------------------------------------------------------
\* lines 188-197: the locals of a run before its first chunk
FreshLocals ==
  [message_id |-> 1,
   current_tool_call_id |-> None,
   current_tool_call_name |-> None,
   current_tool_call_args |-> "",
   has_text_content |-> FALSE,
   has_started_text_message |-> FALSE,
   has_started_thinking |-> FALSE,
   is_in_thinking |-> FALSE,
   content_buffer |-> <<>>,
   tool_results |-> <<>>,
   continuation |-> FALSE,
   out |-> <<>>,
   ran |-> <<>>,
   err |-> None,
   rng |-> ImportedRandom]

\* the locals in reasoning mode: an open delimiter has been read
ReasoningLocals == [HandleContent(FreshLocals, OpenTag) EXCEPT !.out = <<>>]

\* what precedes and what follows the delimiter in the texts that are fed
PlainBefore == {<<>>, <<"a">>, <<"a", "<">>, <<" ">>}
PlainAfter == {<<>>, <<"r">>, <<"r">> \o CloseTag \o <<"b">>, <<"r", "<">>}
ReasoningBefore == {<<>>, <<"r">>, <<"r", "<">>, <<" ">>}
ReasoningAfter == {<<>>, <<"b">>, OpenTag \o <<"r">>, <<"b", "<">>}

\* a text with a delimiter, the mode it is read in, and a cut inside the
\* delimiter: at least one and not all of its characters are before the cut
SplitCase(mode, before, tag, after, k) ==
  [mode |-> mode,
   text |-> before \o tag \o after,
   cut |-> Len(before) + k,
   whole |-> IF mode = "PLAIN" THEN FreshLocals ELSE ReasoningLocals,
   halves |-> IF mode = "PLAIN" THEN FreshLocals ELSE ReasoningLocals,
   whole_fed |-> FALSE,
   fed |-> 0]

SplitCases ==
  {SplitCase("PLAIN", b, OpenTag, a, k) :
     b \in PlainBefore, a \in PlainAfter, k \in 1..(Len(OpenTag) - 1)}
    \cup
  {SplitCase("REASONING", b, CloseTag, a, k) :
     b \in ReasoningBefore, a \in ReasoningAfter, k \in 1..(Len(CloseTag) - 1)}

InitSplit ==
  /\ RunInit
  /\ rng = ImportedRandom
  /\ split \in SplitCases
  /\ runs = NoRuns
  /\ solo = NoRuns

\* the text arrives in one chunk
FeedWhole ==
  /\ ~split.whole_fed
  /\ split' = [split EXCEPT !.whole = HandleContent(@, split.text),
                            !.whole_fed = TRUE]
  /\ UNCHANGED <<runVars, rng, runs, solo>>

\* the text up to the cut arrives in a chunk
FeedFirst ==
  /\ split.fed = 0
  /\ split' = [split EXCEPT
                 !.halves = HandleContent(@, SubSeq(split.text, 1, split.cut)),
                 !.fed = 1]
  /\ UNCHANGED <<runVars, rng, runs, solo>>

\* the text after the cut arrives in the next chunk
FeedSecond ==
  /\ split.fed = 1
  /\ split' = [split EXCEPT
                 !.halves = HandleContent(@, SubSeq(split.text, split.cut + 1,
                                                    Len(split.text))),
                 !.fed = 2]
  /\ UNCHANGED <<runVars, rng, runs, solo>>

NextSplit ==
  \/ FeedWhole
  \/ FeedFirst
  \/ FeedSecond

SpecSplit == InitSplit /\ [][NextSplit]_vars

\* the span events of an event sequence: kind and delta
SpanEvents(evs) ==
  [i \in 1..Len(evs) |->
     <<evs[i].type,
       IF evs[i].type \in {"TEXT_MESSAGE_CONTENT", "THINKING_TEXT_MESSAGE_CONTENT"}
       THEN evs[i].delta ELSE <<>> >>]

\* C12: split-invariance. A text with an open delimiter read in plain mode,
\* or with a close delimiter read in reasoning mode, fed as two fragments cut
\* inside that delimiter, yields the same span events (kinds and deltas) as
\* the text fed in one fragment.
C12_SplitInvariance ==
  (split.whole_fed /\ split.fed = 2) =>
    SpanEvents(split.halves.out) = SpanEvents(split.whole.out)

\* a reasoning span closed by a delimiter that arrived in two fragments,
\* with a character "<" before it and text after it
C12_Witness ==
  /\ split.whole_fed
  /\ split.fed = 2
  /\ split.mode = "REASONING"
  /\ split.text = <<"r", "<">> \o CloseTag \o <<"b">>
  /\ split.cut = 5
  /\ SpanEvents(split.halves.out) =
       << <<"THINKING_TEXT_MESSAGE_CONTENT", <<"r", "<">> >>,
          <<"THINKING_TEXT_MESSAGE_END", <<>> >>,
          <<"THINKING_END", <<>> >>,
          <<"TEXT_MESSAGE_START", <<>> >>,
          <<"TEXT_MESSAGE_CONTENT", <<"b">> >> >>

\* C13: RUN_STARTED is the first event of a run and is emitted once: it is
\* there before the first model call is made and before every text,
\* reasoning, tool-call and terminal event.
C13_RunStartedFirst ==
  (calls # <<>> \/ events # <<>>) =>
    /\ events # <<>>
    /\ events[1] = RunStartedEvent
    /\ Indices("RUN_STARTED") = {1}

\* a run that emitted text, reasoning and tool-call events and made both
\* model calls
C13_Witness ==
  /\ Len(calls) = 2
  /\ Count("TEXT_MESSAGE_CONTENT") >= 1
  /\ Count("THINKING_TEXT_MESSAGE_CONTENT") >= 1
  /\ Count("TOOL_CALL_END") >= 1

\* a tool-call delta without a call id and without an argument fragment
IsEmptyDelta(d) == ~Truthy(d.id) /\ ~(d.function /\ Truthy(d.arguments))

\* a chunk whose content fragment is empty, whose tool-call deltas are all
\* empty and that has no finish reason
IsEmptyChunk(c) ==
  /\ c.choices
  /\ c.content = <<>>
  /\ c.finish_reason = None
  /\ \A i \in 1..Len(c.tool_calls) : IsEmptyDelta(c.tool_calls[i])

\* the first stream delivers an empty chunk in this step
EmptyChunkStep ==
  /\ Len(inputs') = Len(inputs) + 1
  /\ IsEmptyChunk(inputs'[Len(inputs')])

\* C14: a chunk with an empty content fragment and a tool-call delta with no
\* call id and no argument fragment emit no event, execute no tool, and
\* leave the mode, the content buffer, the started flags and the pending
\* tool call (id, name, argument buffer) unchanged.
C14_EmptyChunkNoEffect ==
  [][EmptyChunkStep => UNCHANGED <<events, locals, executed, pc>>]_vars

\* an empty tool-call delta arrived while a call with arguments was pending
\* and a partial delimiter was withheld in the content buffer
C14_Witness ==
  /\ Len(inputs) = 3
  /\ IsEmptyChunk(inputs[3])
  /\ inputs[3].tool_calls # <<>>
  /\ inputs[3].tool_calls[1].function
  /\ Truthy(current_tool_call_id)
  /\ current_tool_call_args # ""
  /\ content_buffer # <<>>
  /\ pc = "stream"

\* a is a prefix of b
IsPrefix(a, b) == Len(a) <= Len(b) /\ a = SubSeq(b, 1, Len(a))

\* a chunk with one tool-call delta that carries a call id, the name and the
\* complete arguments, and nothing else
IsWholeCallChunk(c) ==
  /\ c.choices
  /\ c.content = <<>>
  /\ c.finish_reason = None
  /\ Len(c.tool_calls) = 1
  /\ Truthy(c.tool_calls[1].id)
  /\ c.tool_calls[1].function
  /\ Truthy(c.tool_calls[1].name)
  /\ Truthy(c.tool_calls[1].arguments)
  /\ json_loads(c.tool_calls[1].arguments).ok

\* the upstream has delivered a beginning of: one whole tool call, finish
\* reason tool_calls; in the continuation a text, finish reason stop
InToolCallScenario ==
  /\ upstream_error = None
  /\ Len(inputs) \in 1..2
  /\ IsWholeCallChunk(inputs[1])
  /\ Len(inputs) = 2 => inputs[2] = Chunk(<<>>, <<>>, "tool_calls")
  /\ Len(cont_inputs) <= 2
  /\ Len(cont_inputs) >= 1 => IsTextChunk(cont_inputs[1])
  /\ Len(cont_inputs) = 2 => cont_inputs[2] = Chunk(<<>>, <<>>, "stop")

\* the events of the whole scenario
ToolCallScenarioEvents ==
  LET d == inputs[1].tool_calls[1]
      text == IF cont_inputs # <<>> THEN cont_inputs[1].content ELSE <<>>
  IN <<RunStartedEvent,
       ToolCallStartEvent(d.id, d.name, message_id),
       ToolCallArgsEvent(d.id, d.arguments),
       ToolCallEndEvent(d.id, execute_tool(rng, d.name, d.arguments).value),
       TextMessageStartEvent(continuation_message_id),
       TextMessageContentEvent(continuation_message_id, text),
       TextMessageEndEvent(continuation_message_id),
       RunFinishedEvent>>

\* C15: tool-call scenario. One delta with call id, name and complete
\* arguments, then finish reason tool_calls, then a continuation that
\* streams text and stop: the events are RUN_STARTED, TOOL_CALL_START,
\* TOOL_CALL_ARGS, TOOL_CALL_END with the tool's result for exactly the
\* delivered arguments, TEXT_MESSAGE_START/CONTENT/END with a message id that
\* differs from the first turn's, RUN_FINISHED; at every point of the
\* scenario the events emitted so far are a beginning of that sequence.
C15_ToolCallScenario ==
  InToolCallScenario =>
    /\ IsPrefix(events, ToolCallScenarioEvents)
    /\ Len(calls) = 2 /\ pc # "cont_create" => continuation_message_id # message_id
    /\ (pc = "done" /\ Len(inputs) = 2 /\ Len(cont_inputs) = 2) =>
         events = ToolCallScenarioEvents

\* the tool-call deltas of a sequence of chunks, in arrival order, with a
\* marker where a chunk carries a finish reason
FinishMark == [id |-> None, function |-> FALSE, name |-> None,
               arguments |-> None, finish |-> TRUE]

RECURSIVE Arrivals(_)
Arrivals(chunks) ==
  IF chunks = <<>> THEN <<>>
  ELSE
    LET c == Head(chunks) IN
    (IF c.choices
     THEN [i \in 1..Len(c.tool_calls) |-> c.tool_calls[i] @@ [finish |-> FALSE]]
            \o (IF Truthy(c.finish_reason) THEN <<FinishMark>> ELSE <<>>)
     ELSE <<>>)
      \o Arrivals(Tail(chunks))

\* the argument fragment of a delta, "" if it has none
Fragment(d) == IF d.function /\ Truthy(d.arguments) THEN d.arguments ELSE ""

\* For each point of the arrivals at which a pending call is to be executed
\* (a new call id, or a finish reason), the concatenation of the fragments
\* received for the pending call, each counted once. g holds the fragments
\* of the pending call and the concatenations found so far.
RECURSIVE ReceivedArgs(_, _)
ReceivedArgs(g, arrivals) ==
  IF arrivals = <<>> THEN g.found
  ELSE
    LET d == Head(arrivals) IN
    IF d.finish THEN
      ReceivedArgs([g EXCEPT !.found = IF g.pending THEN Append(@, g.frags) ELSE @],
                   Tail(arrivals))
    ELSE IF Truthy(d.id) THEN
      ReceivedArgs([pending |-> TRUE,
                    frags |-> Fragment(d),
                    found |-> IF g.pending THEN Append(g.found, g.frags)
                              ELSE g.found],
                   Tail(arrivals))
    ELSE
      ReceivedArgs([g EXCEPT !.frags = @ \o Fragment(d)], Tail(arrivals))

ReceivedArgsOfInputs ==
  ReceivedArgs([pending |-> FALSE, frags |-> "", found |-> <<>>],
               Arrivals(inputs))

\* the position of the j-th TOOL_CALL_END, and of the TOOL_CALL_START it
\* closes: the last one of its id before it
EndIndex(j) ==
  CHOOSE k \in Indices("TOOL_CALL_END") :
    Cardinality({m \in Indices("TOOL_CALL_END") : m <= k}) = j

StartIndex(k) ==
  CHOOSE i \in Indices("TOOL_CALL_START") :
    /\ i < k
    /\ events[i].tool_call_id = events[k].tool_call_id
    /\ \A m \in Indices("TOOL_CALL_START") :
         (m < k /\ events[m].tool_call_id = events[k].tool_call_id) => m <= i

\* the concatenation of the deltas of the TOOL_CALL_ARGS events with id c
RECURSIVE ConcatArgs(_, _)
ConcatArgs(evs, c) ==
  IF evs = <<>> THEN ""
  ELSE (IF Head(evs).type = "TOOL_CALL_ARGS" /\ Head(evs).tool_call_id = c
        THEN Head(evs).delta ELSE "")
         \o ConcatArgs(Tail(evs), c)

\* C17: the argument string passed to the tool when a pending call is
\* executed is the concatenation, in arrival order, of the argument
\* fragments received for that call, each counted once (also the fragment of
\* the delta that carries the call id), and it is the concatenation of the
\* deltas of the TOOL_CALL_ARGS events emitted for the call between its
\* TOOL_CALL_START and its TOOL_CALL_END.
C17_ArgumentsAreFragmentsOnce ==
  /\ \A i \in 1..Len(executed) :
       executed[i].arguments = ReceivedArgsOfInputs[i]
  /\ LET done == SelectSeq(executed, LAMBDA x : ~x.raised) IN
     \A j \in 1..Count("TOOL_CALL_END") :
       done[j].arguments =
         ConcatArgs(SubSeq(events, StartIndex(EndIndex(j)), EndIndex(j)),
                    events[EndIndex(j)].tool_call_id)

\* a text without the delimiters that switch the mode: the open delimiter
\* in plain mode, the close delimiter in reasoning mode
RECURSIVE WithoutDelimiters(_, _)
WithoutDelimiters(text, reasoning) ==
  LET tag == IF reasoning THEN CloseTag ELSE OpenTag IN
  IF Contains(text, tag)
  THEN SplitBefore(text, tag)
         \o WithoutDelimiters(SplitAfter(text, tag), ~reasoning)
  ELSE text

\* s without its whitespace characters
Solid(s) == SelectSeq(s, LAMBDA c : c \notin Whitespace)

\* the first finish reason of the first stream has just been handled
FirstFinishObserved ==
  /\ inputs # <<>>
  /\ inputs[Len(inputs)].choices
  /\ Truthy(inputs[Len(inputs)].finish_reason)
  /\ finish_seen = <<inputs[Len(inputs)].finish_reason>>
  /\ cont_inputs = <<>>

\* C18: when the turn's finish reason is observed, every content character
\* received in the turn has been emitted. The residual buffer is drained,
\* and the concatenation of the TEXT_MESSAGE_CONTENT and
\* THINKING_TEXT_MESSAGE_CONTENT deltas is the concatenated input without
\* its delimiters, up to whitespace (whitespace-only spans are suppressed).
C18_BufferDrainedAtFinish ==
  FirstFinishObserved =>
    /\ content_buffer = <<>>
    /\ Solid(ConcatDeltas(events, {"TEXT_MESSAGE_CONTENT",
                                   "THINKING_TEXT_MESSAGE_CONTENT"}))
         = Solid(WithoutDelimiters(ConcatContent(inputs), FALSE))

\* C19: every TOOL_CALL_ARGS event carries the id of an open tool call: a
\* call id, for which TOOL_CALL_START was emitted before the event (also
\* when both come from one delta) and no TOOL_CALL_END since; a fragment
\* that arrives when no call is pending yields no TOOL_CALL_ARGS without id.
C19_ArgsOnlyForOpenCall ==
  \A k \in Indices("TOOL_CALL_ARGS") :
    /\ Truthy(events[k].tool_call_id)
    /\ \E i \in Indices("TOOL_CALL_START") :
         /\ i < k
         /\ events[i].tool_call_id = events[k].tool_call_id
         /\ \A m \in Indices("TOOL_CALL_END") :
              events[m].tool_call_id = events[k].tool_call_id =>
                (m < i \/ k < m)

\* the first stream delivers, while a call is pending and before any finish
\* reason, a chunk of tool-call deltas whose call ids are all the pending id
SameIdStep ==
  /\ Len(inputs') = Len(inputs) + 1
  /\ finish_seen = <<>>
  /\ Truthy(current_tool_call_id)
  /\ LET c == inputs'[Len(inputs')] IN
     /\ c.choices
     /\ c.finish_reason = None
     /\ \E i \in 1..Len(c.tool_calls) : Truthy(c.tool_calls[i].id)
     /\ \A i \in 1..Len(c.tool_calls) :
          Truthy(c.tool_calls[i].id) => c.tool_calls[i].id = current_tool_call_id

\* C20: a tool-call delta whose call id is the id of the pending call does
\* not close, execute or restart that call: no tool is executed and no
\* TOOL_CALL_END or TOOL_CALL_START is emitted, and the call stays pending.
C20_SameIdKeepsCallOpen ==
  [][SameIdStep =>
       /\ executed' = executed
       /\ Count("TOOL_CALL_END")' = Count("TOOL_CALL_END")
       /\ Count("TOOL_CALL_START")' = Count("TOOL_CALL_START")
       /\ current_tool_call_id' = current_tool_call_id]_vars

\* ------------------------------------------------------------------------
\* Two runs in one process. Each request gets its own event_generator with
\* its own locals (lines 188-197); the runs take turns at the awaits of the
\* chunk loop, so a chunk is processed, and a tool executed, without the
\* other run in between. What the runs share is the module state of
\* tools.py: the generator of the random module. Each run is also followed
\* running alone, fed the same chunks, with a generator of its own.
\* ------------------------------------------------------------------------
Runs == {1, 2}

\* the chunks the two first streams deliver: a whole call of a tool, a
\* text, a finish reason
PairChunks ==
  { Chunk(<<>>, <<ToolDelta("A", "get_weather", ""),
                  ToolDelta(None, None, CityArgs)>>, None),
    Chunk(<<>>, <<ToolDelta("B", "get_weather", ""),
                  ToolDelta(None, None, RomeArgs)>>, None),
    Chunk(<<>>, <<ToolDelta("C", "calculate", ""),
                  ToolDelta(None, None, ExprArgs)>>, None),
    Chunk(<<"a">>, <<>>, None),
    Chunk(<<>>, <<>>, "tool_calls") }

\* the locals of run r before its first chunk; steps lists the positions
\* of the run's steps among the steps of both runs
RunLocals(r) == [FreshLocals EXCEPT !.message_id = r] @@ [steps |-> <<>>]

\* lines 201-427 for a run with locals s when the generator is g
RunChunk(s, g, chunk) ==
  ProcessChunk([s EXCEPT !.rng = g, !.continuation = FALSE], chunk)

InitPair ==
  /\ RunInit
  /\ rng = ImportedRandom
  /\ split = NoSplit
  /\ runs = [r \in Runs |-> RunLocals(r)]
  /\ solo = [r \in Runs |-> RunLocals(r)]

\* run r reads a chunk from its first stream and processes it
PairChunk(r) ==
  /\ Len(runs[1].steps) + Len(runs[2].steps) < MaxPairChunks
  /\ runs[r].err = None
  /\ \E chunk \in PairChunks :
       \E together \in {RunChunk(runs[r], rng, chunk)} :
       \E alone \in {RunChunk(solo[r], solo[r].rng, chunk)} :
         /\ runs' = [runs EXCEPT ![r] =
                       [together EXCEPT !.steps =
                          Append(@, Len(runs[1].steps) + Len(runs[2].steps) + 1)]]
         /\ rng' = together.rng
         /\ solo' = [solo EXCEPT ![r] = alone]
  /\ UNCHANGED <<runVars, split>>

NextPair == \E r \in Runs : PairChunk(r)

SpecPair == InitPair /\ [][NextPair]_vars

\* C16: concurrent runs are independent. Whatever the interleaving of the
\* steps of two runs, each run emits the events and gets the tool results
\* (name, arguments, outcome of every execution) that it gets running alone
\* on the same chunks.
C16_RunsIndependent ==
  \A r \in Runs :
    /\ runs[r].out = solo[r].out
    /\ runs[r].ran = solo[r].ran
    /\ runs[r].err = solo[r].err

\* run 1 asked for the weather of Oslo, run 2 for Rome; run 2 took both its
\* steps, its tool execution too, between the two steps of run 1
C16_Witness ==
  /\ runs[1].steps = <<1, 4>>
  /\ runs[2].steps = <<2, 3>>
  /\ Len(runs[1].ran) = 1
  /\ runs[1].ran[1].name = "get_weather"
  /\ runs[1].ran[1].arguments = CityArgs
  /\ Len(runs[2].ran) = 1
  /\ runs[2].ran[1].arguments = RomeArgs
  /\ rng = Drawn(random_seed(445), 4)

\* ------------------------------------------------------------------------
\* Withholding of output while a delimiter may be arriving
\* ------------------------------------------------------------------------
\* s ends with a non-empty proper prefix of tag
EndsWithIncompletePrefix(s, tag) ==
  \E k \in 1..(Len(tag) - 1) :
    /\ k <= Len(s)
    /\ SubSeq(s, Len(s) - k + 1, Len(s)) = SubSeq(tag, 1, k)

\* the delimiter the buffer is searched for in the current mode
AwaitedTag == IF is_in_thinking THEN CloseTag ELSE OpenTag

\* C21: text is held back in content_buffer between chunks only while the
\* buffer ends with an incomplete prefix of the delimiter of the current mode
\* (the open delimiter in plain mode, the close delimiter in reasoning mode);
\* any other buffer was emitted whole and cleared in the step that read it,
\* so a "<" that does not begin a delimiter is never carried over to a later
\* fragment.
C21_WithheldOnlyForDelimiterPrefix ==
  content_buffer # <<>> => EndsWithIncompletePrefix(content_buffer, AwaitedTag)

\* ------------------------------------------------------------------------
\* The message list
\* ------------------------------------------------------------------------
\* the messages call i + 1 was given after those call i was given
AddedBefore(i) ==
  SubSeq(calls[i + 1].messages, Len(calls[i].messages) + 1,
         Len(calls[i + 1].messages))

\* one assistant message holding tool calls, then tool-result messages only
IsToolRound(added) ==
  /\ Len(added) >= 2
  /\ added[1].role = "assistant"
  /\ added[1].tool_calls # <<>>
  /\ \A k \in 2..Len(added) : added[k].role = "tool"

\* what every model call of the run was given is still at the head of the
\* list, and each later call was given the list of the call before it
\* followed by one tool round
CallsSeePrefix ==
  /\ \A i \in 1..Len(calls) : IsPrefix(calls[i].messages, messages)
  /\ \A i \in 1..(Len(calls) - 1) :
       /\ IsPrefix(calls[i].messages, calls[i + 1].messages)
       /\ IsToolRound(AddedBefore(i))
       /\ ~calls[i + 1].tools

\* C22: the message list only grows at its end: every step leaves the list
\* it found as a prefix of the list it leaves, the first call is given the
\* converted conversation, and the continuation call is given the first
\* call's messages followed by the assistant tool-call message and the
\* tool-result messages.
C22_MessagesAppendOnly ==
  /\ [][IsPrefix(messages, messages')]_vars
  /\ [](Len(calls) >= 1 => calls[1].messages = BuildMessages(conversation))
  /\ []CallsSeePrefix

\* the continuation call has been issued with a tool round behind the
\* conversation
C22_Witness ==
  /\ Len(calls) = 2
  /\ Len(calls[2].messages) = Len(calls[1].messages) + 2
  /\ calls[2].messages[Len(calls[2].messages)].role = "tool"
  /\ pc = "cont"

\* ------------------------------------------------------------------------
\* Whitespace
\* ------------------------------------------------------------------------
ContentTypes == {"TEXT_MESSAGE_CONTENT", "THINKING_TEXT_MESSAGE_CONTENT"}

\* no content event carries a delta that is whitespace only
NoBlankDelta(evs) ==
  \A i \in 1..Len(evs) : evs[i].type \in ContentTypes => ~IsBlank(evs[i].delta)

\* every TEXT_MESSAGE_START is directly followed by content of its message
StartHasContent(evs) ==
  \A i \in 1..Len(evs) :
    evs[i].type = "TEXT_MESSAGE_START" =>
      /\ i < Len(evs)
      /\ evs[i + 1].type = "TEXT_MESSAGE_CONTENT"
      /\ evs[i + 1].message_id = evs[i].message_id

\* the text message m was neither started nor ended
NoTextMessage(evs, m) ==
  \A i \in 1..Len(evs) :
    evs[i].type \in {"TEXT_MESSAGE_START", "TEXT_MESSAGE_END"} =>
      evs[i].message_id # m

\* C23: a whitespace-only span emits nothing: no TEXT_MESSAGE_CONTENT and no
\* THINKING_TEXT_MESSAGE_CONTENT has a whitespace-only delta, no
\* TEXT_MESSAGE_START is emitted without content of its message behind it,
\* and a turn, first or continuation, whose content is all whitespace has
\* neither TEXT_MESSAGE_START nor TEXT_MESSAGE_END.
C23_WhitespaceSpanSilent ==
  /\ NoBlankDelta(events)
  /\ StartHasContent(events)
  /\ (pc \in {"stream", "cont_create", "cont", "done"}
        /\ inputs # <<>> /\ IsBlank(ConcatContent(inputs)))
       => NoTextMessage(events, message_id)
  /\ (pc \in {"cont", "done"} /\ Len(calls) = 2
        /\ cont_inputs # <<>> /\ IsBlank(ConcatContent(cont_inputs)))
       => NoTextMessage(events, continuation_message_id)

\* ------------------------------------------------------------------------
\* Nothing refers to a text message after its end
\* ------------------------------------------------------------------------
\* the event adds to the text message m: content of m, or a tool call whose
\* parent message is m
RefersToMessage(e, m) ==
  \/ e.type = "TEXT_MESSAGE_CONTENT" /\ e.message_id = m
  \/ e.type = "TOOL_CALL_START" /\ e.parent_message_id = m

\* C24: after the TEXT_MESSAGE_END of a message id no TEXT_MESSAGE_CONTENT
\* with that id and no TOOL_CALL_START with that id as parent message is
\* emitted, whatever chunks arrive after the chunk with the finish reason.
C24_NothingAfterTextMessageEnd ==
  \A i \in 1..Len(events) :
    events[i].type = "TEXT_MESSAGE_END" =>
      \A j \in (i + 1)..Len(events) :
        ~RefersToMessage(events[j], events[i].message_id)

\* ------------------------------------------------------------------------
\* Reasoning content lies inside a reasoning message
\* ------------------------------------------------------------------------
\* the reasoning message is open after the first n events: there is a
\* THINKING_TEXT_MESSAGE_START among them with no THINKING_TEXT_MESSAGE_END
\* behind it
ReasoningOpenAfter(evs, n) ==
  \E i \in 1..n :
    /\ evs[i].type = "THINKING_TEXT_MESSAGE_START"
    /\ \A j \in (i + 1)..n : evs[j].type # "THINKING_TEXT_MESSAGE_END"

\* C25: every THINKING_TEXT_MESSAGE_CONTENT comes while a reasoning message
\* is open: a THINKING_TEXT_MESSAGE_START precedes it with no
\* THINKING_TEXT_MESSAGE_END in between, also in the second and later
\* reasoning spans of a turn.
C25_ThinkingContentInsideMessage ==
  \A k \in 1..Len(events) :
    events[k].type = "THINKING_TEXT_MESSAGE_CONTENT" =>
      ReasoningOpenAfter(events, k - 1)

====
